---- MODULE Spec2Model ----
(***************************************************************************)
(* A model of monads.py: the Maybe containers Just and Nothing with their  *)
(* map and bind methods, MaybeReturn and ListReturn, the curried directory *)
(* lookups get_user_ufid and get_name, and the demonstrations the script   *)
(* runs on them.                                                           *)
(*                                                                         *)
(* Python objects live in a heap (a sequence of objects, an object's       *)
(* identity is its index), so that "the same object" and "an equal object" *)
(* are different things.  A Python function is modelled by an operator     *)
(* that takes the interpreter state S = [heap, calls] and returns the      *)
(* state after the call together with the returned value (field ret); a   *)
(* raised exception is the returned value Exc(..), which callers pass on.  *)
(***************************************************************************)
EXTENDS Integers, Sequences, FiniteSets, TLC

(* Bounds of the model. *)
MaxDir == 2      \* longest lookup table handed to get_user_ufid / get_name
MaxChain == 4    \* longest expression: a producer followed by method calls

(***************************************************************************)
(* Python values                                                           *)
(***************************************************************************)
StrVal(s) == [t |-> "str", v |-> s]
IntVal(n) == [t |-> "int", v |-> n]
Ref(i) == [t |-> "ref", v |-> i]
ListVal(q) == [t |-> "list", v |-> q]
None == [t |-> "none", v |-> 0]
Exc(e) == [t |-> "exc", v |-> e]

Glids == {"albert", "alberta"}
Ufids == {"00000000", "11111111"}
Names == {"Albert Alligator", "Alberta Alligator"}

(* The values the script and its callers feed into the containers. *)
InputVals ==
  {StrVal(s) : s \in Glids \cup Ufids \cup Names \cup {"ALBERT", "nonexistent"}}
    \cup {None, IntVal(5)}

(* str.lower() on the strings of the model. *)
Lower(s) ==
  CASE s = "ALBERT" -> "albert"
    [] s = "Albert Alligator" -> "albert alligator"
    [] s = "Alberta Alligator" -> "alberta alligator"
    [] OTHER -> s

(***************************************************************************)
(* The directory                                                           *)
(***************************************************************************)
Person == [glid : Glids, ufid : Ufids, name : Names]

Tables == UNION {[1..n -> Person] : n \in 0..MaxDir}

directory ==
  << [glid |-> "albert", ufid |-> "00000000", name |-> "Albert Alligator"],
     [glid |-> "alberta", ufid |-> "11111111", name |-> "Alberta Alligator"] >>

(***************************************************************************)
(* Functions as values.  calls counts the invocations of each function as  *)
(* a stage function (what a call-counting stub would count).               *)
(***************************************************************************)
FnNames ==
  {"to_lower", "find_ufid", "find_name", "always_fail", "MaybeReturn",
   "ListReturn", "lambda_bind", "lambda_unit"}

NoCalls == [n \in FnNames |-> 0]

Fn(n) == [name |-> n, dir |-> << >>, f |-> << >>, g |-> << >>]

get_user_ufid(dir) == [Fn("find_ufid") EXCEPT !.dir = dir]

get_name(dir) == [Fn("find_name") EXCEPT !.dir = dir]

get_user_ufid_from_directory == get_user_ufid(directory)

get_name_from_directory == get_name(directory)

(* lambda x: f(x).bind(g) *)
LambdaBind(f, g) == [Fn("lambda_bind") EXCEPT !.f = f, !.g = g]

(* lambda x: MaybeReturn(f(x)) *)
LambdaUnit(f) == [Fn("lambda_unit") EXCEPT !.f = f]

(***************************************************************************)
(* The classes                                                             *)
(***************************************************************************)
Raise(S, e) == [heap |-> S.heap, calls |-> S.calls, ret |-> Exc(e)]

Return(S, x) == [heap |-> S.heap, calls |-> S.calls, ret |-> x]

IsExc(x) == x.t = "exc"

IsObj(S, x) == x.t = "ref" /\ x.v \in 1..Len(S.heap)

RECURSIVE Apply(_, _, _)

(* Just.__init__: a new object holding x. *)
Just(S, x) ==
  [heap |-> Append(S.heap, [cls |-> "Just", value |-> x]),
   calls |-> S.calls,
   ret |-> Ref(Len(S.heap) + 1)]

(* Nothing.__init__: a new object whose value attribute is None. *)
Nothing(S) ==
  [heap |-> Append(S.heap, [cls |-> "Nothing", value |-> None]),
   calls |-> S.calls,
   ret |-> Ref(Len(S.heap) + 1)]

(* Variants of the methods with a defect, used to test the properties. *)
Just_map_flat(S, self, f) == Apply(S, f, S.heap[self].value)

Just_map_inplace(S, self, f) ==
  LET r == Apply(S, f, S.heap[self].value)
  IN  IF IsExc(r.ret) THEN r
      ELSE [heap |-> [r.heap EXCEPT ![self].value = r.ret],
            calls |-> r.calls,
            ret |-> Ref(self)]

Just_bind_absent(S, self, f) == Nothing(S)

Just_bind_rewrap(S, self, f) ==
  LET r == Apply(S, f, S.heap[self].value)
  IN  IF IsExc(r.ret) THEN r ELSE Just(r, r.ret)

Nothing_map_apply(S, self, f) ==
  LET r == Apply(S, f, S.heap[self].value)
  IN  IF IsExc(r.ret) THEN r ELSE Just(r, r.ret)

Nothing_bind_just(S, self, f) == Just(S, S.heap[self].value)

Nothing_bind_apply(S, self, f) == Apply(S, f, S.heap[self].value)

ListReturn_bare(S, x) == Return(S, x)

Just_map(S, self, f) ==
  LET r == Apply(S, f, S.heap[self].value)
  IN  IF IsExc(r.ret) THEN r ELSE Just(r, r.ret)

Just_bind(S, self, f) == Apply(S, f, S.heap[self].value)

Nothing_map(S, self, f) == Nothing(S)

Nothing_bind(S, self, f) == Nothing(S)

MaybeReturn(S, x) == Just(S, x)

ListReturn(S, x) == Return(S, ListVal(<<x>>))

(* recv.map(f): the method of recv's class; a value that is not a Just or *)
(* a Nothing (a list, a string, None) has no attribute map.                *)
Map(S, recv, f) ==
  IF IsObj(S, recv)
    THEN IF S.heap[recv.v].cls = "Just"
           THEN Just_map(S, recv.v, f)
           ELSE Nothing_map(S, recv.v, f)
    ELSE Raise(S, "AttributeError")

(* recv.bind(f), likewise. *)
Bind(S, recv, f) ==
  IF IsObj(S, recv)
    THEN IF S.heap[recv.v].cls = "Just"
           THEN Just_bind(S, recv.v, f)
           ELSE Nothing_bind(S, recv.v, f)
    ELSE Raise(S, "AttributeError")

(* recv.value: both classes set the attribute in __init__. *)
GetValue(S, recv) ==
  IF IsObj(S, recv)
    THEN Return(S, S.heap[recv.v].value)
    ELSE Raise(S, "AttributeError")

(***************************************************************************)
(* The functions of the script                                             *)
(***************************************************************************)
get_user_glid(S) == Just(S, StrVal("ALBERT"))

to_lower(S, s) ==
  IF s.t = "str" THEN Return(S, StrVal(Lower(s.v)))
                 ELSE Raise(S, "AttributeError")

get_clean_user_glid(S) ==
  LET r == get_user_glid(S) IN Map(r, r.ret, Fn("to_lower"))

RECURSIVE find_ufid_from(_, _, _, _)
(* The for loop of find_ufid from the i-th person on. *)
find_ufid_from(S, dir, i, gl) ==
  IF i > Len(dir) THEN Nothing(S)
  ELSE IF StrVal(dir[i].glid) = gl THEN Just(S, StrVal(dir[i].ufid))
  ELSE find_ufid_from(S, dir, i + 1, gl)

RECURSIVE find_ufid_last_from(_, _, _, _)
(* A variant that keeps scanning and answers with the last match. *)
find_ufid_last_from(S, dir, i, gl) ==
  IF i < 1 THEN Nothing(S)
  ELSE IF StrVal(dir[i].glid) = gl THEN Just(S, StrVal(dir[i].ufid))
  ELSE find_ufid_last_from(S, dir, i - 1, gl)

find_ufid_last(S, dir, gl) == find_ufid_last_from(S, dir, Len(dir), gl)

find_ufid(S, dir, gl) == find_ufid_from(S, dir, 1, gl)

RECURSIVE find_name_from(_, _, _, _)
(* The for loop of find_name from the i-th person on. *)
find_name_from(S, dir, i, id) ==
  IF i > Len(dir) THEN Nothing(S)
  ELSE IF StrVal(dir[i].ufid) = id THEN Just(S, StrVal(dir[i].name))
  ELSE find_name_from(S, dir, i + 1, id)

find_name(S, dir, id) == find_name_from(S, dir, 1, id)

always_fail(S, x) == Nothing(S)

(* f(x) for a function value f, counted as one invocation of f. *)
Apply(S, f, x) ==
  LET C == [heap |-> S.heap, calls |-> [S.calls EXCEPT ![f.name] = @ + 1]]
  IN  CASE f.name = "to_lower" -> to_lower(C, x)
        [] f.name = "find_ufid" -> find_ufid(C, f.dir, x)
        [] f.name = "find_name" -> find_name(C, f.dir, x)
        [] f.name = "always_fail" -> always_fail(C, x)
        [] f.name = "MaybeReturn" -> MaybeReturn(C, x)
        [] f.name = "ListReturn" -> ListReturn(C, x)
        [] f.name = "lambda_bind" ->
             LET r == Apply(C, f.f, x) IN Bind(r, r.ret, f.g)
        [] f.name = "lambda_unit" ->
             LET r == Apply(C, f.f, x)
             IN  IF IsExc(r.ret) THEN r ELSE MaybeReturn(r, r.ret)

(***************************************************************************)
(* Observation: a container up to object identity (variant and value).     *)
(***************************************************************************)
RECURSIVE Struct(_, _)
Struct(h, x) ==
  IF x.t = "ref"
    THEN [cls |-> h[x.v].cls, value |-> Struct(h, h[x.v].value)]
    ELSE x

Total(c) == c["to_lower"] + c["find_ufid"] + c["find_name"] + c["always_fail"]
              + c["MaybeReturn"] + c["ListReturn"] + c["lambda_bind"]
              + c["lambda_unit"]

(***************************************************************************)
(* State                                                                   *)
(***************************************************************************)
VARIABLES
  heap,    \* the objects constructed so far
  calls,   \* invocations of each stage function so far
  cur,     \* the value of the expression evaluated so far
  trace,   \* the calls of the expression, in order
  demo     \* the demonstration that was run, if any

vars == <<heap, calls, cur, trace, demo>>

St == [heap |-> heap, calls |-> calls]

Demo(law, dir, x, m, f, g, L, R, aux) ==
  [law |-> law, dir |-> dir, x |-> x, m |-> m, f |-> f, g |-> g,
   lhs |-> L.ret, lhsCalls |-> L.calls,
   rhs |-> R.ret, rhsCalls |-> R.calls, aux |-> aux]

Empty == [heap |-> << >>, calls |-> NoCalls]

NoDemo ==
  Demo("none", << >>, None, None, "", "", Return(Empty, None), Return(Empty, None), None)

Step(op, f, recv, r) ==
  [op |-> op, f |-> f, recv |-> recv, ret |-> r.ret,
   invoked |-> Total(r.calls) - Total(calls)]

Init ==
  /\ heap = << >>
  /\ calls = NoCalls
  /\ cur = None
  /\ trace = << >>
  /\ demo = NoDemo

Fresh == trace = << >> /\ demo = NoDemo

(* The stage functions the script chains. *)
StageFns ==
  {Fn("to_lower"), get_user_ufid_from_directory, get_name_from_directory,
   Fn("always_fail"), Fn("MaybeReturn"), Fn("ListReturn")}

Produce(op, arg, r) ==
  /\ Fresh
  /\ heap' = r.heap
  /\ calls' = r.calls
  /\ cur' = r.ret
  /\ trace' = <<Step(op, op, arg, r)>>
  /\ UNCHANGED demo

NewJust == \E x \in InputVals : Produce("Just", x, Just(St, x))

NewNothing == Produce("Nothing", None, Nothing(St))

CallMaybeReturn == \E x \in InputVals : Produce("MaybeReturn", x, MaybeReturn(St, x))

CallListReturn == \E x \in InputVals : Produce("ListReturn", x, ListReturn(St, x))

CallGetUserGlid == Produce("get_user_glid", None, get_user_glid(St))

CallGetCleanUserGlid == Produce("get_clean_user_glid", None, get_clean_user_glid(St))

Chaining == trace # << >> /\ Len(trace) < MaxChain /\ ~IsExc(cur)

Continue(op, f, r) ==
  /\ Chaining
  /\ heap' = r.heap
  /\ calls' = r.calls
  /\ cur' = r.ret
  /\ trace' = Append(trace, Step(op, f, cur, r))
  /\ UNCHANGED demo

MapCall == \E f \in StageFns : Continue("map", f.name, Map(St, cur, f))

BindCall == \E f \in StageFns : Continue("bind", f.name, Bind(St, cur, f))

ReadValue == Continue("value", "value", GetValue(St, cur))

(***************************************************************************)
(* The demonstrations of the script, for any table, value, container and   *)
(* stage functions.  Each side starts counting invocations from zero.      *)
(***************************************************************************)
(* A container as an input: its class and the value it is built from. *)
Containers ==
  {[cls |-> "Nothing", value |-> None]}
    \cup {[cls |-> "Just", value |-> x] : x \in InputVals}

Build(S, m) == IF m.cls = "Just" THEN Just(S, m.value) ELSE Nothing(S)

(* Functions returning a Maybe. *)
MaybeFns(d) ==
  {get_user_ufid(d), get_name(d), Fn("always_fail"), Fn("MaybeReturn")}

(* Functions handed to map. *)
MapFns(d) == MaybeFns(d) \cup {Fn("to_lower"), Fn("ListReturn")}

After(r) == [heap |-> r.heap, calls |-> NoCalls]

Demonstrate(d, r) ==
  /\ heap' = r.heap
  /\ calls' = r.calls
  /\ demo' = d
  /\ UNCHANGED <<cur, trace>>

(* f(x) and MaybeReturn(x).bind(f) *)
LeftIdentity ==
  /\ Fresh
  /\ \E d \in Tables, x \in InputVals : \E f \in MaybeFns(d) :
    LET R == Apply(After(St), f, x)
        U == MaybeReturn(After(R), x)
        L == Bind(U, U.ret, f)
    IN  Demonstrate(Demo("left_identity", d, x, None, f.name, "", L, R, None), L)

(* m.bind(MaybeReturn) and m *)
RightIdentity ==
  /\ Fresh
  /\ \E m \in Containers :
    LET M == Build(After(St), m)
        L == Bind(M, M.ret, Fn("MaybeReturn"))
    IN  Demonstrate(Demo("right_identity", << >>, None, m, "MaybeReturn", "", L, M, None), L)

(* m.bind(f).bind(g) and m.bind(lambda x: f(x).bind(g)) *)
Associativity ==
  /\ Fresh
  /\ \E d \in Tables, m \in Containers : \E f, g \in MaybeFns(d) :
    LET M == Build(After(St), m)
        L1 == Bind(M, M.ret, f)
        L == Bind(L1, L1.ret, g)
        R == Bind(After(L), M.ret, LambdaBind(f, g))
    IN  Demonstrate(Demo("associativity", d, None, m, f.name, g.name, L, R, None), R)

(* m.map(f) and m.bind(lambda x: MaybeReturn(f(x))) *)
MapBindEquivalence ==
  /\ Fresh
  /\ \E d \in Tables, m \in Containers : \E f \in MapFns(d) :
    LET M == Build(After(St), m)
        L == Map(M, M.ret, f)
        R == Bind(After(L), M.ret, LambdaUnit(f))
    IN  Demonstrate(Demo("map_bind", d, None, m, f.name, "", L, R, None), R)

(* Just(x).bind(f) and Just(x).map(f), next to f(x) *)
MapVersusBind ==
  /\ Fresh
  /\ \E d \in Tables, x \in InputVals : \E f \in MaybeFns(d) :
    LET F == Apply(After(St), f, x)
        J == Just(After(F), x)
        L == Bind(J, J.ret, f)
        R == Map(After(L), J.ret, f)
    IN  Demonstrate(Demo("map_vs_bind", d, x, None, f.name, "", L, R, F.ret), R)

(* get_user_ufid(d)(k) and get_name(d)(k) *)
Lookup ==
  /\ Fresh
  /\ \E d \in Tables, k \in InputVals : \E f \in {get_user_ufid(d), get_name(d)} :
    LET L == Apply(After(St), f, k)
    IN  Demonstrate(Demo("lookup", d, k, None, f.name, "", L, L, None), L)

Next ==
  \/ LeftIdentity
  \/ RightIdentity
  \/ Associativity
  \/ MapBindEquivalence
  \/ MapVersusBind
  \/ Lookup
  \/ NewJust
  \/ NewNothing
  \/ CallMaybeReturn
  \/ CallListReturn
  \/ CallGetUserGlid
  \/ CallGetCleanUserGlid
  \/ MapCall
  \/ BindCall
  \/ ReadValue

Spec == Init /\ [][Next]_vars

(***************************************************************************)
(* Properties                                                              *)
(***************************************************************************)
IsJust(x) == x.t = "ref" /\ heap[x.v].cls = "Just"

IsNothing(x) == x.t = "ref" /\ heap[x.v].cls = "Nothing"

Lhs == Struct(heap, demo.lhs)

Rhs == Struct(heap, demo.rhs)

AbsentValue == [cls |-> "Nothing", value |-> None]

PresentValue(x) == [cls |-> "Just", value |-> x]

(* C1: left identity.  MaybeReturn(x).bind(f) has the variant and the      *)
(* inner value of f(x), and evaluating it invokes f exactly once.          *)
C1_LeftIdentity ==
  demo.law = "left_identity" =>
    /\ Lhs = Rhs
    /\ demo.lhsCalls[demo.f] = 1
    /\ Total(demo.lhsCalls) = 1

C1_Witness ==
  /\ demo.law = "left_identity"
  /\ demo.f = "find_ufid"
  /\ demo.x = StrVal("albert")
  /\ Lhs = PresentValue(StrVal("00000000"))

(* C2: right identity.  m.bind(MaybeReturn) has the variant and the inner  *)
(* value of m, for m a Just of any value and for m a Nothing.              *)
C2_RightIdentity ==
  demo.law = "right_identity" => Lhs = Rhs /\ Rhs = demo.m

C2_Witness ==
  /\ demo.law = "right_identity"
  /\ demo.m.cls = "Nothing"
  /\ IsNothing(demo.lhs)

(* C3: associativity.  m.bind(f).bind(g) has the variant and the inner     *)
(* value of m.bind(lambda x: f(x).bind(g)), also when m is a Nothing and   *)
(* when f or g returns a Nothing.                                          *)
C3_Associativity ==
  demo.law = "associativity" => Lhs = Rhs

C3_Witness ==
  /\ demo.law = "associativity"
  /\ demo.m = PresentValue(StrVal("albert"))
  /\ demo.f = "find_ufid"
  /\ demo.g = "find_name"
  /\ Rhs = PresentValue(StrVal("Albert Alligator"))

(* C4: absence is absorbing.  In an expression that chains bind calls,     *)
(* once the starting container or the result of a stage is a Nothing, no   *)
(* later bind invokes a function and every later result, the final one     *)
(* included, is a Nothing.                                                 *)
BindChain ==
  /\ trace # << >>
  /\ \A k \in 2..Len(trace) : trace[k].op = "bind"

C4_AbsenceAbsorbing ==
  BindChain =>
    \A i \in 1..Len(trace) :
      IsNothing(trace[i].ret) =>
        /\ \A j \in (i + 1)..Len(trace) :
             trace[j].invoked = 0 /\ IsNothing(trace[j].ret)
        /\ IsNothing(cur)

C4_Witness ==
  /\ BindChain
  /\ Len(trace) = 4
  /\ IsJust(trace[1].ret)
  /\ trace[2].f = "find_ufid"
  /\ IsNothing(trace[2].ret)
  /\ trace[3].f = "find_name"
  /\ trace[4].f = "MaybeReturn"
  /\ IsNothing(cur)

(* C5: map/bind equivalence.  m.map(f) has the variant and the inner value *)
(* of m.bind(lambda x: MaybeReturn(f(x))), and each of the two invokes f   *)
(* once when m is a Just and never when m is a Nothing.                    *)
C5_MapBindEquivalence ==
  demo.law = "map_bind" =>
    LET n == IF demo.m.cls = "Just" THEN 1 ELSE 0
    IN  /\ Lhs = Rhs
        /\ demo.lhsCalls[demo.f] = n
        /\ demo.rhsCalls[demo.f] = n

C5_Witness ==
  /\ demo.law = "map_bind"
  /\ demo.f = "to_lower"
  /\ demo.m = PresentValue(StrVal("ALBERT"))
  /\ Lhs = PresentValue(StrVal("albert"))

(* C6: no double-wrapping.  For f returning a Maybe of a plain value,      *)
(* Just(x).bind(f) is what f(x) is, a container whose inner value is not a *)
(* container, while Just(x).map(f) is a Just whose inner value is the      *)
(* container f(x).                                                         *)
C6_NoDoubleWrapping ==
  demo.law = "map_vs_bind" =>
    /\ Lhs = Struct(heap, demo.aux)
    /\ demo.lhs.t = "ref"
    /\ heap[demo.lhs.v].value.t # "ref"
    /\ IsJust(demo.rhs)
    /\ heap[demo.rhs.v].value.t = "ref"
    /\ Rhs = PresentValue(Struct(heap, demo.aux))

C6_Witness ==
  /\ demo.law = "map_vs_bind"
  /\ demo.f = "find_ufid"
  /\ Lhs = PresentValue(StrVal("00000000"))
  /\ Rhs = PresentValue(PresentValue(StrVal("00000000")))

(* C7: lookup determinism.  The function built by get_user_ufid (get_name) *)
(* returns a Just of the ufid (name) of the first person of the table      *)
(* whose glid (ufid) is the key, and a Nothing exactly when there is none. *)
KeyField == IF demo.f = "find_ufid" THEN "glid" ELSE "ufid"

ResultField == IF demo.f = "find_ufid" THEN "ufid" ELSE "name"

Matches == {i \in 1..Len(demo.dir) : StrVal(demo.dir[i][KeyField]) = demo.x}

C7_LookupDeterminism ==
  demo.law = "lookup" =>
    IF Matches = {}
      THEN Lhs = AbsentValue
      ELSE \E i \in Matches :
             /\ \A j \in Matches : i <= j
             /\ Lhs = PresentValue(StrVal(demo.dir[i][ResultField]))

C7_Witness ==
  /\ demo.law = "lookup"
  /\ Matches = {1, 2}
  /\ demo.dir[1][ResultField] # demo.dir[2][ResultField]
  /\ IsJust(demo.lhs)

(* C8: reading the inner value of a Nothing fails loudly (raises), it      *)
(* never yields a value.                                                   *)
C8_ExtractFromNothingFails ==
  \A k \in 1..Len(trace) :
    (trace[k].op = "value" /\ IsNothing(trace[k].recv)) => IsExc(trace[k].ret)

(* C9, as claimed: bind on a sequence is the in-order concatenation of f   *)
(* applied to each element.                                                *)
RECURSIVE ConcatMap(_, _)
ConcatMap(f, q) ==
  IF q = << >> THEN << >>
  ELSE Apply(St, f, Head(q)).ret.v \o ConcatMap(f, Tail(q))

C10_Immutability ==
  [][/\ \A i \in 1..Len(heap) : i <= Len(heap') /\ heap'[i] = heap[i]
     /\ (Len(trace') > Len(trace) /\ trace'[Len(trace')].op = "map"
           /\ cur'.t = "ref")
          => cur'.v > Len(heap) /\ cur' # cur]_vars

C10_Witness ==
  /\ Len(trace) = 3
  /\ trace[2].op = "map"
  /\ trace[2].f = "to_lower"
  /\ trace[3].op = "bind"
  /\ Len(heap) = 3
  /\ heap[1] = [cls |-> "Just", value |-> StrVal("ALBERT")]
  /\ heap[2] = [cls |-> "Just", value |-> StrVal("albert")]
  /\ heap[3] = [cls |-> "Just", value |-> StrVal("00000000")]

====
